---- MODULE Spec2Model ----
(***************************************************************************)
(* Worker runtime of hatchet_sdk.v2: the worker lifecycle of               *)
(* runtime/worker.py running on one asyncio event loop, and the stream     *)
(* combinators of runtime/utils.py.                                        *)
(*                                                                         *)
(* The event loop is modelled as asyncio runs it: a FIFO queue `ready` of  *)
(* handles (task steps and done-callbacks), one handle run to its next     *)
(* suspension point at a time.  Threads of the default executor, the       *)
(* dispatcher and the wall clock act concurrently with the loop.           *)
(***************************************************************************)
EXTENDS Integers, Sequences, FiniteSets, TLC

\* ---- bounds of the model ------------------------------------------------
MaxStarts    == 2   \* successful start() calls explored
MaxCalls     == 3   \* start()/shutdown() calls the caller makes
MaxAssign    == 2   \* assignments the dispatcher sends
MaxListens   == 2   \* ListenV2 streams opened by one listener
MaxClock     == 3   \* wall clock values 1..MaxClock (seconds, scaled)
MaxSrcLen    == 2   \* items of a source stream
MaxInterrupts == 2  \* values put on an interrupt queue
MaxValue     == 2   \* distinct item values 1..MaxValue
MaxInvocations == 3 \* streams a factory is asked for
MaxItems     == 2   \* items pushed into a queue
MaxBacklog   == 2   \* work items queued in a thread pool ahead of a new one

VARIABLES
    \* Worker (worker.py:137-155)
    status,          \* Worker.status
    id,              \* Worker.id, 0 = None
    outbound,        \* envelopes put on Worker.outbound, in order
    outbound_closed, \* whether Worker.outbound has been closed
    heartbeat_task,  \* Worker._heartbeat_task: 0 = attribute not set, else start number
    listener_task,   \* Worker._listener_task: 0 = None, else start number
    \* _HeartBeater (worker.py:60-68)
    hb_status,       \* _HeartBeater.status attribute, "unset" until line 90 runs
    last_heartbeat,  \* _HeartBeater.last_heartbeat
    missed,          \* _HeartBeater.missed
    error,           \* _HeartBeater.error
    \* _Listner (worker.py:101-107)
    attempt,         \* _Listner.attempt
    resp,            \* per listener generator: its local `resp`
    \* event loop, threads, dispatcher, clock
    task,            \* asyncio tasks created by start()
    ready,           \* the loop's FIFO queue of handles
    inflight,        \* outbound.put calls running on executor threads
    clock,           \* time.time()
    dispatcher,      \* calls seen and assignments sent: [registers, sent, listens,
                     \* heartbeatAt, hbfailed, rpcerrors]
    received,        \* assignments yielded by the ListenV2 streams, in arrival order
    \* the caller of start()/shutdown()
    caller,          \* [pc, wake, last, calls, starts, pre]
    tg,              \* the gather future of the running shutdown(): [n, done, exc]
    closeCalls,      \* number of outbound.close() calls
    \* the stream combinators of utils.py, each run on its own
    ia,              \* one run of InterruptableAgen
    fa,              \* one run of ForeverAgen
    qa,              \* one run of QueueAgen per queue kind
    mf               \* one call of MapFuture

wvars == <<status, id, outbound, outbound_closed, heartbeat_task, listener_task,
           hb_status, last_heartbeat, missed, error, attempt, resp, task, ready,
           inflight, clock, dispatcher, received, caller, tg, closeCalls>>

cvars == <<ia, fa, qa, mf>>

vars == <<wvars, cvars>>

\* ---- program constants ---------------------------------------------------
\* WorkerOptions.heartbeat, in clock units (one unit = the configured period)
HeartbeatInterval == 1

\* ---- values ----------------------------------------------------------------
TaskIds == {"hb", "lis"} \X (1..MaxStarts)
MainId  == <<"main", 0>>

NoTask == [pc |-> "none", wake |-> "none", val |-> 0, must_cancel |-> FALSE,
           outcome |-> "none", cbs |-> <<>>, deadline |-> 0]

StepH(t)  == [h |-> "step", t |-> t, g |-> 0]
CbH(t, g) == [h |-> "cb", t |-> t, g |-> g]

\* AssignedAction n as received from the dispatcher
AssignedAction(n) == [kind |-> "AssignedAction", actionId |-> n]

\* google.protobuf.json_format.MessageToDict: the plain structured record
MessageToDict(a) == [kind |-> "dict", actionId |-> a.actionId]

\* messages.Message(_action=MessageToDict(action))          worker.py:192
MessageOf(a) == [kind |-> "Message", _action |-> MessageToDict(a)]

\* the AssignedAction an envelope carries
ActionOf(m) == [kind |-> "AssignedAction", actionId |-> m._action.actionId]

RECURSIVE MapActionOf(_)
MapActionOf(s) == IF s = <<>> THEN <<>> ELSE <<ActionOf(Head(s))>> \o MapActionOf(Tail(s))

IsPrefix(s, t) == Len(s) <= Len(t) /\ SubSeq(t, 1, Len(s)) = s

\* ---- asyncio primitives ----------------------------------------------------
\* a step of t is about to throw CancelledError into its coroutine
Cancelled(t) == task[t].must_cancel \/ task[t].wake = "cancelled"

\* Task.cancel(): [task, ready, ret] after cancelling t in (tf, rq)
CancelTask(tf, rq, t) ==
    IF tf[t].pc \in {"none", "done"}
    THEN [task |-> tf, ready |-> rq, ret |-> FALSE]
    ELSE IF tf[t].wake = "none"
    THEN \* suspended on a pending future: the future is cancelled, the wakeup queued
         [task |-> [tf EXCEPT ![t].wake = "cancelled"],
          ready |-> Append(rq, StepH(t)), ret |-> TRUE]
    ELSE \* its step is already queued
         [task |-> [tf EXCEPT ![t].must_cancel = TRUE], ready |-> rq, ret |-> TRUE]

RECURSIVE CbHandles(_, _)
CbHandles(t, gs) == IF gs = <<>> THEN <<>> ELSE <<CbH(t, Head(gs))>> \o CbHandles(t, Tail(gs))

\* the task t ends with `outcome`: its done-callbacks are queued
FinishTask(tf, t, outcome) ==
    [tf EXCEPT ![t] = [@ EXCEPT !.pc = "done", !.wake = "none", !.must_cancel = FALSE,
                                !.outcome = outcome, !.cbs = <<>>,
                                !.val = 0, !.deadline = 0]]

FinishReady(tf, rq, t) == rq \o CbHandles(t, tf[t].cbs)

\* the loop may run the handle h now: the caller's coroutine is not on the CPU
LoopRuns(h) == caller.pc # "run" /\ ready # <<>> /\ Head(ready) = h


\* ---- initial state: Worker.__init__ (worker.py:138-155) ------------------
WInit ==
    /\ status = "UNKNOWN"
    /\ id = 0
    /\ outbound = <<>>
    /\ outbound_closed = FALSE
    /\ heartbeat_task = 0
    /\ listener_task = 0
    /\ hb_status = "unset"
    /\ last_heartbeat = -1
    /\ missed = 0
    /\ error = 0
    /\ attempt = 0
    /\ resp = [k \in 1..MaxStarts |-> "None"]
    /\ task = [t \in TaskIds |-> NoTask]
    /\ ready = <<>>
    /\ inflight = {}
    /\ clock = 1
    /\ dispatcher = [registers |-> 0, sent |-> 0, listens |-> 0,
                     heartbeatAt |-> 0, hbfailed |-> 0, rpcerrors |-> 0]
    /\ received = <<>>
    /\ caller = [pc |-> "run", wake |-> "none", last |-> "none", calls |-> 0,
                 starts |-> 0, pre |-> FALSE]
    /\ tg = [n |-> 0, done |-> FALSE, exc |-> "none"]
    /\ closeCalls = 0

\* ---- _HeartBeater.heartbeat (worker.py:70-98) ------------------------------
\* line 88: this round is the first heartbeat ever
FirstHeartbeat(last) == last < 0

\* lines 88-94: the counters after a round at time `now`: [last_heartbeat, missed]
HeartbeatRound(last, miss, now) ==
    IF FirstHeartbeat(last)
    THEN [last_heartbeat |-> now, missed |-> miss]
    ELSE [last_heartbeat |-> last,
          missed |-> IF now - last > HeartbeatInterval THEN miss + 1 ELSE miss]

\* line 90 assigns `self.status` of the _HeartBeater, not of the Worker
HeartbeatMarks(st, last) == IF FirstHeartbeat(last) THEN "HEALTHY" ELSE st

\* one round whose Heartbeat call (heartbeatAt = now) returned, up to the sleep
\* of line 95
HeartbeatOk(k) ==
    LET t == <<"hb", k>>
        r == HeartbeatRound(last_heartbeat, missed, clock)
    IN  /\ LoopRuns(StepH(t))
        /\ ~Cancelled(t)
        /\ ready' = Tail(ready)
        /\ dispatcher' = [dispatcher EXCEPT !.heartbeatAt = clock]
        /\ last_heartbeat' = r.last_heartbeat
        /\ missed' = r.missed
        /\ hb_status' = HeartbeatMarks(hb_status, last_heartbeat)
        /\ task' = [task EXCEPT ![t] = [@ EXCEPT !.pc = "sleep", !.wake = "none",
                                        !.deadline = clock + HeartbeatInterval]]
        /\ UNCHANGED <<cvars, status, id, outbound, outbound_closed, heartbeat_task,
                       listener_task, error, attempt, resp, inflight, clock,
                       received, caller, tg, closeCalls>>

\* a handler that counts the failed call and goes on with the round
HeartbeatRpcFailCounted(k) ==
    LET t == <<"hb", k>>
        r == HeartbeatRound(last_heartbeat, missed, clock)
    IN  /\ LoopRuns(StepH(t))
        /\ ~Cancelled(t)
        /\ ready' = Tail(ready)
        /\ dispatcher' = [dispatcher EXCEPT !.hbfailed = @ + 1]
        /\ error' = error + 1
        /\ last_heartbeat' = r.last_heartbeat
        /\ missed' = r.missed
        /\ hb_status' = HeartbeatMarks(hb_status, last_heartbeat)
        /\ task' = [task EXCEPT ![t] = [@ EXCEPT !.pc = "sleep", !.wake = "none",
                                        !.deadline = clock + HeartbeatInterval]]
        /\ UNCHANGED <<cvars, status, id, outbound, outbound_closed, heartbeat_task,
                       listener_task, attempt, resp, inflight, clock,
                       received, caller, tg, closeCalls>>

\* a round whose Heartbeat call raised: evaluating `except grpc.RpcErrors`
\* (line 85; grpc has no such attribute) raises AttributeError out of the task
HeartbeatRpcFail(k) ==
    LET t == <<"hb", k>>
    IN  /\ LoopRuns(StepH(t))
        /\ ~Cancelled(t)
        /\ dispatcher' = [dispatcher EXCEPT !.hbfailed = @ + 1]
        /\ task' = FinishTask(task, t, "AttributeError")
        /\ ready' = FinishReady(task, Tail(ready), t)
        /\ UNCHANGED <<cvars, status, id, outbound, outbound_closed, heartbeat_task,
                       listener_task, hb_status, last_heartbeat, missed, error,
                       attempt, resp, inflight, clock, received,
                       caller, tg, closeCalls>>

\* CancelledError thrown into the task: the finally of line 97 runs, the task ends
HeartbeatCancelled(k) ==
    LET t == <<"hb", k>>
    IN  /\ LoopRuns(StepH(t))
        /\ Cancelled(t)
        /\ task' = FinishTask(task, t, "cancelled")
        /\ ready' = FinishReady(task, Tail(ready), t)
        /\ UNCHANGED <<cvars, status, id, outbound, outbound_closed, heartbeat_task,
                       listener_task, hb_status, last_heartbeat, missed, error,
                       attempt, resp, inflight, clock, dispatcher, received,
                       caller, tg, closeCalls>>

\* asyncio.sleep(heartbeat) of line 95 elapses
HeartbeatTimer(k) ==
    LET t == <<"hb", k>>
    IN  /\ task[t].pc = "sleep"
        /\ task[t].wake = "none"
        /\ clock >= task[t].deadline
        /\ task' = [task EXCEPT ![t].wake = "result"]
        /\ ready' = Append(ready, StepH(t))
        /\ UNCHANGED <<cvars, status, id, outbound, outbound_closed, heartbeat_task,
                       listener_task, hb_status, last_heartbeat, missed, error,
                       attempt, resp, inflight, clock, dispatcher, received,
                       caller, tg, closeCalls>>

Tick ==
    /\ clock < MaxClock
    /\ clock' = clock + 1
    /\ UNCHANGED <<cvars, status, id, outbound, outbound_closed, heartbeat_task,
                   listener_task, hb_status, last_heartbeat, missed, error,
                   attempt, resp, task, ready, inflight, dispatcher, received,
                   caller, tg, closeCalls>>


\* ---- _Listner.listen driven by Worker._onevent (worker.py:109-134, 190-194) -
\* a relay that does not wait for the put before pulling the next event
OnEventSubmittedNoAwait(tk) == [tk EXCEPT !.pc = "read", !.wake = "none", !.val = 0]

\* worker.py:193: after handing the put to a thread the relay awaits its completion
OnEventSubmitted(tk) == [tk EXCEPT !.pc = "push", !.wake = "none", !.val = 0]

\* lines 131-134: the generator's finally, run when CancelledError is thrown into
\* it at the read of line 121; `if resp:` holds for any call object
ListenFinally(r) == IF r = "open" THEN "cancelled" ELSE r

\* first step of the relay task: lines 110-121, the stream is opened and read
ListenOpen(k) ==
    LET t == <<"lis", k>>
    IN  /\ LoopRuns(StepH(t))
        /\ ~Cancelled(t)
        /\ task[t].pc = "new"
        /\ ready' = Tail(ready)
        /\ resp' = [resp EXCEPT ![k] = "open"]
        /\ dispatcher' = [dispatcher EXCEPT !.listens = @ + 1]
        /\ task' = [task EXCEPT ![t] = [@ EXCEPT !.pc = "read", !.wake = "none"]]
        /\ UNCHANGED <<cvars, status, id, outbound, outbound_closed, heartbeat_task,
                       listener_task, hb_status, last_heartbeat, missed, error,
                       attempt, inflight, clock, received, caller, tg, closeCalls>>

\* the dispatcher sends the next assignment on the open stream of listener k
StreamEvent(k) ==
    LET t == <<"lis", k>>
    IN  /\ task[t].pc = "read" /\ task[t].wake = "none" /\ resp[k] = "open"
        /\ dispatcher.sent < MaxAssign
        /\ dispatcher' = [dispatcher EXCEPT !.sent = @ + 1]
        /\ task' = [task EXCEPT ![t] = [@ EXCEPT !.wake = "event",
                                                 !.val = dispatcher.sent + 1]]
        /\ ready' = Append(ready, StepH(t))
        /\ UNCHANGED <<cvars, status, id, outbound, outbound_closed, heartbeat_task,
                       listener_task, hb_status, last_heartbeat, missed, error,
                       attempt, resp, inflight, clock, received, caller, tg,
                       closeCalls>>

\* the open stream ends (how = "eof") or fails with AioRpcError (how = "rpcerror")
StreamEnds(k, how) ==
    LET t == <<"lis", k>>
    IN  /\ task[t].pc = "read" /\ task[t].wake = "none" /\ resp[k] = "open"
        /\ dispatcher.listens < MaxListens
        /\ task' = [task EXCEPT ![t].wake = how]
        /\ ready' = Append(ready, StepH(t))
        /\ UNCHANGED <<cvars, status, id, outbound, outbound_closed, heartbeat_task,
                       listener_task, hb_status, last_heartbeat, missed, error,
                       attempt, resp, inflight, clock, dispatcher, received,
                       caller, tg, closeCalls>>

StreamEof(k) == StreamEnds(k, "eof")

StreamRpcError(k) == StreamEnds(k, "rpcerror")

\* lines 121-122 and 191-193: an event is yielded, wrapped and handed to a thread
ListenYield(k) ==
    LET t == <<"lis", k>>
        a == AssignedAction(task[t].val)
    IN  /\ LoopRuns(StepH(t))
        /\ ~Cancelled(t)
        /\ task[t].pc = "read" /\ task[t].wake = "event"
        /\ ready' = Tail(ready)
        /\ received' = Append(received, a)
        /\ inflight' = inflight \cup {[k |-> k, msg |-> MessageOf(a)]}
        /\ task' = [task EXCEPT ![t] = OnEventSubmitted(@)]
        /\ UNCHANGED <<cvars, status, id, outbound, outbound_closed, heartbeat_task,
                       listener_task, hb_status, last_heartbeat, missed, error,
                       attempt, resp, clock, dispatcher, caller, tg, closeCalls>>

\* lines 124-125 then 115-121: the stream was exhausted, a new one is opened
ListenExhausted(k) ==
    LET t == <<"lis", k>>
    IN  /\ LoopRuns(StepH(t))
        /\ ~Cancelled(t)
        /\ task[t].pc = "read" /\ task[t].wake = "eof"
        /\ ready' = Tail(ready)
        /\ attempt' = attempt + 1
        /\ resp' = [resp EXCEPT ![k] = "open"]
        /\ dispatcher' = [dispatcher EXCEPT !.listens = @ + 1]
        /\ task' = [task EXCEPT ![t].wake = "none"]
        /\ UNCHANGED <<cvars, status, id, outbound, outbound_closed, heartbeat_task,
                       listener_task, hb_status, last_heartbeat, missed, error,
                       inflight, clock, received, caller, tg, closeCalls>>

\* lines 126-127 then 115-121: AioRpcError is logged, a new stream is opened
ListenRpcError(k) ==
    LET t == <<"lis", k>>
    IN  /\ LoopRuns(StepH(t))
        /\ ~Cancelled(t)
        /\ task[t].pc = "read" /\ task[t].wake = "rpcerror"
        /\ ready' = Tail(ready)
        /\ resp' = [resp EXCEPT ![k] = "open"]
        /\ dispatcher' = [dispatcher EXCEPT !.listens = @ + 1, !.rpcerrors = @ + 1]
        /\ task' = [task EXCEPT ![t].wake = "none"]
        /\ UNCHANGED <<cvars, status, id, outbound, outbound_closed, heartbeat_task,
                       listener_task, hb_status, last_heartbeat, missed, error,
                       attempt, inflight, clock, received, caller, tg, closeCalls>>

\* a thread of the executor runs outbound.put(msg) for the relay of listener k;
\* a put on a closed multiprocessing queue raises ValueError
ThreadPut(k, m) ==
    LET t == <<"lis", k>>
        awaited == task[t].pc = "push" /\ task[t].wake = "none"
    IN  /\ [k |-> k, msg |-> m] \in inflight
        /\ inflight' = inflight \ {[k |-> k, msg |-> m]}
        /\ outbound' = IF outbound_closed THEN outbound ELSE Append(outbound, m)
        /\ IF awaited
           THEN /\ task' = [task EXCEPT ![t].wake =
                               IF outbound_closed THEN "puterror" ELSE "result"]
                /\ ready' = Append(ready, StepH(t))
           ELSE UNCHANGED <<cvars, task, ready>>
        /\ UNCHANGED <<cvars, status, id, outbound_closed, heartbeat_task, listener_task,
                       hb_status, last_heartbeat, missed, error, attempt, resp,
                       clock, dispatcher, received, caller, tg, closeCalls>>

\* line 194 then 191 and 121: the put completed, the next event is awaited
ListenPushed(k) ==
    LET t == <<"lis", k>>
    IN  /\ LoopRuns(StepH(t))
        /\ ~Cancelled(t)
        /\ task[t].pc = "push" /\ task[t].wake = "result"
        /\ ready' = Tail(ready)
        /\ task' = [task EXCEPT ![t] = [@ EXCEPT !.pc = "read", !.wake = "none"]]
        /\ UNCHANGED <<cvars, status, id, outbound, outbound_closed, heartbeat_task,
                       listener_task, hb_status, last_heartbeat, missed, error,
                       attempt, resp, inflight, clock, dispatcher, received,
                       caller, tg, closeCalls>>

\* line 193: the put raised; the error leaves _onevent and ends the task
ListenPutError(k) ==
    LET t == <<"lis", k>>
    IN  /\ LoopRuns(StepH(t))
        /\ ~Cancelled(t)
        /\ task[t].pc = "push" /\ task[t].wake = "puterror"
        /\ task' = FinishTask(task, t, "ValueError")
        /\ ready' = FinishReady(task, Tail(ready), t)
        /\ UNCHANGED <<cvars, status, id, outbound, outbound_closed, heartbeat_task,
                       listener_task, hb_status, last_heartbeat, missed, error,
                       attempt, resp, inflight, clock, dispatcher, received,
                       caller, tg, closeCalls>>

\* CancelledError thrown into the relay task.  At the read it passes through the
\* generator, whose finally cancels the stream; at the push (line 193) or before
\* the first step the generator is not running and its finally does not run
ListenCancelled(k) ==
    LET t == <<"lis", k>>
    IN  /\ LoopRuns(StepH(t))
        /\ Cancelled(t)
        /\ resp' = [resp EXCEPT ![k] = IF task[t].pc = "read"
                                        THEN ListenFinally(@) ELSE @]
        /\ task' = FinishTask(task, t, "cancelled")
        /\ ready' = FinishReady(task, Tail(ready), t)
        /\ UNCHANGED <<cvars, status, id, outbound, outbound_closed, heartbeat_task,
                       listener_task, hb_status, last_heartbeat, missed, error,
                       attempt, inflight, clock, dispatcher, received, caller,
                       tg, closeCalls>>


\* ---- Worker._register and Worker.start (worker.py:157-179) ----------------
\* the worker id in the dispatcher's n-th Register response
RegisterResponse(n) == n

\* line 177: the barrier start() polls on
StartBarrier(last) == last > 0

\* asyncio.create_task: the task's first step is queued
NewTask == [NoTask EXCEPT !.pc = "new", !.wake = "result"]

\* start() whose Register call succeeds: lines 169-179 up to the first poll
CallStart ==
    LET k   == caller.starts + 1
        n   == dispatcher.registers + 1
        hb  == <<"hb", k>>
        lis == <<"lis", k>>
    IN  /\ caller.pc = "run"
        /\ caller.calls < MaxCalls
        /\ caller.starts < MaxStarts
        /\ dispatcher' = [dispatcher EXCEPT !.registers = n]
        /\ id' = RegisterResponse(n)
        /\ status' = "REGISTERED"
        /\ task' = [task EXCEPT ![hb] = NewTask, ![lis] = NewTask]
        /\ ready' = ready \o <<StepH(hb), StepH(lis)>>
        /\ heartbeat_task' = k
        /\ listener_task' = k
        /\ caller' = IF StartBarrier(last_heartbeat)
                     THEN [caller EXCEPT !.last = "start_ok", !.calls = @ + 1,
                                         !.starts = k, !.pre = FALSE]
                     ELSE [caller EXCEPT !.pc = "poll", !.wake = "none",
                                         !.last = "none", !.calls = @ + 1,
                                         !.starts = k, !.pre = FALSE]
        /\ UNCHANGED <<cvars, outbound, outbound_closed, hb_status, last_heartbeat,
                       missed, error, attempt, resp, inflight, clock, received,
                       tg, closeCalls>>

\* a start() that marks the worker registered before the Register call returns
CallStartRegisterFailsMarked ==
    /\ caller.pc = "run"
    /\ caller.calls < MaxCalls
    /\ dispatcher' = [dispatcher EXCEPT !.registers = @ + 1]
    /\ status' = "REGISTERED"
    /\ caller' = [caller EXCEPT !.last = "start_raised", !.calls = @ + 1,
                                !.pre = FALSE]
    /\ UNCHANGED <<cvars, id, outbound, outbound_closed, heartbeat_task,
                   listener_task, hb_status, last_heartbeat, missed, error,
                   attempt, resp, task, ready, inflight, clock, received, tg,
                   closeCalls>>

\* start() whose Register call raises: line 158 raises out of start()
CallStartRegisterFails ==
    /\ caller.pc = "run"
    /\ caller.calls < MaxCalls
    /\ dispatcher' = [dispatcher EXCEPT !.registers = @ + 1]
    /\ caller' = [caller EXCEPT !.last = "start_raised", !.calls = @ + 1,
                                !.pre = FALSE]
    /\ UNCHANGED <<cvars, status, id, outbound, outbound_closed, heartbeat_task,
                   listener_task, hb_status, last_heartbeat, missed, error,
                   attempt, resp, task, ready, inflight, clock, received, tg,
                   closeCalls>>

\* a sleep of the caller's coroutine elapses (line 179)
CallerTimer ==
    /\ caller.pc = "poll"
    /\ caller.wake = "none"
    /\ caller' = [caller EXCEPT !.wake = "result"]
    /\ ready' = Append(ready, StepH(MainId))
    /\ UNCHANGED <<cvars, status, id, outbound, outbound_closed, heartbeat_task,
                   listener_task, hb_status, last_heartbeat, missed, error,
                   attempt, resp, task, inflight, clock, dispatcher, received,
                   tg, closeCalls>>

\* lines 176-179: start() wakes from its sleep and tests the barrier again
StartPoll ==
    /\ LoopRuns(StepH(MainId))
    /\ caller.pc = "poll"
    /\ ready' = Tail(ready)
    /\ caller' = IF StartBarrier(last_heartbeat)
                 THEN [caller EXCEPT !.pc = "run", !.wake = "none",
                                     !.last = "start_ok"]
                 ELSE [caller EXCEPT !.wake = "none"]
    /\ UNCHANGED <<cvars, status, id, outbound, outbound_closed, heartbeat_task,
                   listener_task, hb_status, last_heartbeat, missed, error,
                   attempt, resp, task, inflight, clock, dispatcher, received,
                   tg, closeCalls>>

\* ---- Worker.shutdown (worker.py:181-188) -----------------------------------
\* Future.add_done_callback of gather: queued at once on a finished child
AddDone(tr, t, g) ==
    IF tr.task[t].pc = "done"
    THEN [task |-> tr.task, ready |-> Append(tr.ready, CbH(t, g))]
    ELSE [task |-> [tr.task EXCEPT ![t].cbs = Append(@, g)], ready |-> tr.ready]

\* line 182: the children gathered, in order
Gathered == <<(<<"hb", heartbeat_task>>), (<<"lis", listener_task>>)>>

\* a shutdown that cancels the heartbeat task only
GatherAndCancelFirst(g) ==
    LET a1 == AddDone([task |-> task, ready |-> ready], Gathered[1], g)
        a2 == AddDone(a1, Gathered[2], g)
    IN  CancelTask(a2.task, a2.ready, Gathered[1])

\* lines 182-183: gather the two tasks, then cancel the gather's children
GatherAndCancel(g) ==
    LET a1 == AddDone([task |-> task, ready |-> ready], Gathered[1], g)
        a2 == AddDone(a1, Gathered[2], g)
        c1 == CancelTask(a2.task, a2.ready, Gathered[1])
        c2 == CancelTask(c1.task, c1.ready, Gathered[2])
    IN  c2

\* line 184
CloseOutbound(n) == n + 1

\* lines 187-188: the errors of `await tg` that shutdown() swallows
ShutdownSuppresses(exc) == exc = "cancelled"

\* shutdown() on a worker that never started: line 182 reads an attribute that
\* only start() sets (__init__ sets _heartbeater_task), AttributeError
CallShutdownUnstarted ==
    /\ caller.pc = "run"
    /\ caller.calls < MaxCalls
    /\ heartbeat_task = 0
    /\ caller' = [caller EXCEPT !.last = "shutdown_raised", !.calls = @ + 1,
                                !.pre = FALSE]
    /\ UNCHANGED <<cvars, status, id, outbound, outbound_closed, heartbeat_task,
                   listener_task, hb_status, last_heartbeat, missed, error,
                   attempt, resp, task, ready, inflight, clock, dispatcher,
                   received, tg, closeCalls>>

\* lines 182-186 up to the await
CallShutdown ==
    LET g == tg.n + 1
        c == GatherAndCancel(g)
    IN  /\ caller.pc = "run"
        /\ caller.calls < MaxCalls
        /\ heartbeat_task # 0
        /\ task' = c.task
        /\ ready' = c.ready
        /\ tg' = [n |-> g, done |-> FALSE, exc |-> "none"]
        /\ outbound_closed' = TRUE
        /\ closeCalls' = CloseOutbound(closeCalls)
        /\ caller' = [caller EXCEPT !.pc = "join", !.wake = "none", !.last = "none",
                         !.calls = @ + 1,
                         !.pre = \A i \in 1..2 : task[Gathered[i]].pc # "done"]
        /\ UNCHANGED <<cvars, status, id, outbound, heartbeat_task, listener_task,
                       hb_status, last_heartbeat, missed, error, attempt, resp,
                       inflight, clock, dispatcher, received>>

\* gather's done-callback for child t of gather g: the first child that ended
\* cancelled or with an error ends the gather with that error
GatherCallback(t, g) ==
    /\ LoopRuns(CbH(t, g))
    /\ IF g = tg.n /\ ~tg.done
       THEN /\ tg' = [tg EXCEPT !.done = TRUE, !.exc = task[t].outcome]
            /\ caller' = [caller EXCEPT !.wake = "result"]
            /\ ready' = Append(Tail(ready), StepH(MainId))
       ELSE /\ ready' = Tail(ready)
            /\ UNCHANGED <<cvars, tg, caller>>
    /\ UNCHANGED <<cvars, status, id, outbound, outbound_closed, heartbeat_task,
                   listener_task, hb_status, last_heartbeat, missed, error,
                   attempt, resp, task, inflight, clock, dispatcher, received,
                   closeCalls>>

\* lines 185-188: `await tg` ends
ShutdownJoin ==
    /\ LoopRuns(StepH(MainId))
    /\ caller.pc = "join"
    /\ ready' = Tail(ready)
    /\ caller' = [caller EXCEPT !.pc = "run", !.wake = "none",
                     !.last = IF ShutdownSuppresses(tg.exc) THEN "shutdown_ok"
                              ELSE "shutdown_raised"]
    /\ UNCHANGED <<cvars, status, id, outbound, outbound_closed, heartbeat_task,
                   listener_task, hb_status, last_heartbeat, missed, error,
                   attempt, resp, task, inflight, clock, dispatcher, received,
                   tg, closeCalls>>

\* ---- the caller between two calls -----------------------------------------
\* the caller awaits something else and lets the loop run
CallerYield ==
    /\ caller.pc = "run"
    /\ caller' = [caller EXCEPT !.pc = "yield", !.wake = "result", !.last = "none",
                                !.pre = FALSE]
    /\ ready' = Append(ready, StepH(MainId))
    /\ UNCHANGED <<cvars, status, id, outbound, outbound_closed, heartbeat_task,
                   listener_task, hb_status, last_heartbeat, missed, error,
                   attempt, resp, task, inflight, clock, dispatcher, received,
                   tg, closeCalls>>

CallerResume ==
    /\ LoopRuns(StepH(MainId))
    /\ caller.pc = "yield"
    /\ ready' = Tail(ready)
    /\ caller' = [caller EXCEPT !.pc = "run", !.wake = "none"]
    /\ UNCHANGED <<cvars, status, id, outbound, outbound_closed, heartbeat_task,
                   listener_task, hb_status, last_heartbeat, missed, error,
                   attempt, resp, task, inflight, clock, dispatcher, received,
                   tg, closeCalls>>

\* ---- InterruptableAgen (utils.py:14-47) --------------------------------------
\* stream elements: source items, interrupt values, the end-of-source sentinel
Item(x)      == [tag |-> "item", v |-> x]
Interrupt(n) == [tag |-> "int", v |-> n]
StopAsyncIteration == [tag |-> "stop", v |-> 0]

SeqsUpTo(S, n) == UNION {[1..k -> S] : k \in 0..n}

\* pc: the generator's position; prod: the producer task; why: how the finally
\* was entered; exc: the error the generator ended with; iterOut, iterTimedOut,
\* iterInspected: what the current loop iteration has done so far
IAOff == [srcAll |-> <<>>, srcEnd |-> "end", src |-> <<>>, queue |-> <<>>,
          interrupt |-> <<>>, ints |-> 0, out |-> <<>>, pc |-> "off",
          prod |-> "none", timedOut |-> FALSE, why |-> "none", exc |-> "none",
          consumerCancelled |-> FALSE, iterOut |-> 0, iterTimedOut |-> FALSE,
          iterInspected |-> FALSE]

\* the positions at which the generator has finished
IAFinished == {"ended", "raised", "cancelled", "closed"}

\* line 33
IsStop(item) == item.tag = "stop"

\* a producer that forgets the sentinel when the source is exhausted
ProducerEndsSilently(q) == q

\* line 24: the producer marks the end of the source
ProducerEnds(q) == Append(q, StopAsyncIteration)

\* a loop that goes on after yielding the interrupt value
AfterInterruptContinues(r) == [r EXCEPT !.pc = "wait"]

\* line 29: the next loop iteration begins with the wait of line 31
NextIteration(r) ==
    [r EXCEPT !.pc = "wait", !.iterOut = 0, !.iterTimedOut = FALSE,
              !.iterInspected = FALSE]

\* the generator leaves its finally with nothing raised in it: the loop was left
\* by a break, by the CancelledError of its consumer, or by aclose()
IALeaves(r) ==
    [r EXCEPT !.pc = IF r.why = "break" THEN "ended"
                     ELSE IF r.why = "cancel" THEN "cancelled" ELSE "closed",
              !.exc = IF r.why = "cancel" THEN "CancelledError" ELSE "none"]

\* line 46: Task.cancel() on the producer, a no-op on a finished task
CancelProducer(r) ==
    IF r.prod = "running" THEN [r EXCEPT !.prod = "cancelling"] ELSE r

\* line 47 on a finished producer: the await returns, or raises the CancelledError
\* of the cancelled producer or the error the source had raised
ProducerJoined(r) ==
    IF r.prod = "cancelled"
    THEN [r EXCEPT !.pc = IF r.why = "break" THEN "raised"
                          ELSE IF r.why = "cancel" THEN "cancelled" ELSE "closed",
                   !.exc = "CancelledError"]
    ELSE IF r.prod = "failed"
    THEN [r EXCEPT !.pc = IF r.why = "close" THEN "closed" ELSE "raised",
                   !.exc = "SourceError"]
    ELSE IALeaves(r)

\* a finally that cancels the producer and does not wait for it
AwaitProducerSkipped(r) == IALeaves(r)

\* line 47: `await producer_task` suspends while the producer has not finished
AwaitProducer(r) ==
    IF r.prod = "cancelling" THEN [r EXCEPT !.pc = "joining"] ELSE ProducerJoined(r)

\* lines 44-47, entered for the reason `why`
IAFinally(r, why) == AwaitProducer(CancelProducer([r EXCEPT !.why = why]))

\* line 42: the break after the interrupt value was yielded, then the finally
AfterInterrupt(r) == IAFinally(r, "break")

\* lines 38-42: interrupt.get_nowait(); a value is yielded, QueueEmpty is
\* suppressed and the loop goes round
InterruptCheck(r) ==
    IF r.interrupt # <<>>
    THEN [r EXCEPT !.out = Append(@, Head(r.interrupt)),
                   !.interrupt = Tail(@), !.pc = "yielded_int",
                   !.iterOut = @ + 1, !.iterInspected = TRUE]
    ELSE NextIteration(r)

\* lines 19-31: the first pull creates the producer task and waits on the queue
IAStart ==
    /\ ia.pc = "init"
    /\ ia' = [ia EXCEPT !.pc = "wait", !.prod = "running"]
    /\ UNCHANGED <<wvars, fa, qa, mf>>

\* lines 22-23: the producer moves the next source item into the queue
IAProduce ==
    /\ ia.prod = "running"
    /\ ia.src # <<>>
    /\ ia' = [ia EXCEPT !.queue = Append(@, Item(Head(ia.src))), !.src = Tail(@)]
    /\ UNCHANGED <<wvars, fa, qa, mf>>

\* line 24: the source is exhausted
IAProducerEnds ==
    /\ ia.prod = "running"
    /\ ia.src = <<>>
    /\ ia.srcEnd = "end"
    /\ ia' = [ia EXCEPT !.queue = ProducerEnds(@), !.prod = "done"]
    /\ UNCHANGED <<wvars, fa, qa, mf>>

\* line 22: the source raises instead of ending; the producer task fails
IASourceRaises ==
    /\ ia.prod = "running"
    /\ ia.src = <<>>
    /\ ia.srcEnd = "raise"
    /\ ia' = [ia EXCEPT !.prod = "failed"]
    /\ UNCHANGED <<wvars, fa, qa, mf>>

\* the cancelled producer's next step throws CancelledError into it: it ends
IAProducerCancelled ==
    /\ ia.prod = "cancelling"
    /\ ia' = [ia EXCEPT !.prod = "cancelled"]
    /\ UNCHANGED <<wvars, fa, qa, mf>>

\* lines 31-36: the wait returns an element of the queue
IAGetItem ==
    /\ ia.pc = "wait"
    /\ ia.queue # <<>>
    /\ LET item == Head(ia.queue)
           r    == [ia EXCEPT !.queue = Tail(@)]
       IN  ia' = IF IsStop(item) THEN IAFinally(r, "break")
                 ELSE [r EXCEPT !.out = Append(@, item), !.pc = "yielded_item",
                                !.iterOut = @ + 1]
    /\ UNCHANGED <<wvars, fa, qa, mf>>

\* lines 30-31 and 38-42: the wait times out, the interrupt queue is looked at
IATimeout ==
    /\ ia.pc = "wait"
    /\ ia' = InterruptCheck([ia EXCEPT !.timedOut = TRUE, !.iterTimedOut = TRUE])
    /\ UNCHANGED <<wvars, fa, qa, mf>>

\* the consumer pulls again after a source item: control leaves the first `with`
\* (line 36) and reaches lines 38-42
IAResumeAfterItem ==
    /\ ia.pc = "yielded_item"
    /\ ia' = InterruptCheck(ia)
    /\ UNCHANGED <<wvars, fa, qa, mf>>

\* the consumer pulls again after the interrupt value: line 42, then the finally
IAResumeAfterInterrupt ==
    /\ ia.pc = "yielded_int"
    /\ ia' = AfterInterrupt(ia)
    /\ UNCHANGED <<wvars, fa, qa, mf>>

\* line 47: the producer has ended, the await of the finally completes
IAJoined ==
    /\ ia.pc = "joining"
    /\ ia.prod = "cancelled"
    /\ ia' = ProducerJoined(ia)
    /\ UNCHANGED <<wvars, fa, qa, mf>>

\* somebody puts a value on the interrupt queue
IAInterrupt ==
    /\ ia.pc # "off"
    /\ ia.ints < MaxInterrupts
    /\ ia' = [ia EXCEPT !.interrupt = Append(@, Interrupt(ia.ints + 1)),
                        !.ints = @ + 1]
    /\ UNCHANGED <<wvars, fa, qa, mf>>

\* the consumer's task is cancelled from outside.  Inside the wait of line 31 the
\* CancelledError is thrown into the generator and its finally runs; at a yield
\* the consumer is running its own code, the error is raised there and the
\* generator is left suspended; before the first pull the generator never ran
IACancelConsumer ==
    /\ ia.pc \in {"init", "wait", "yielded_item", "yielded_int"}
    /\ ~ia.consumerCancelled
    /\ LET r == [ia EXCEPT !.consumerCancelled = TRUE]
       IN  ia' = IF ia.pc = "wait" THEN IAFinally(r, "cancel")
                 ELSE IF ia.pc = "init" THEN [r EXCEPT !.pc = "closed"]
                 ELSE [r EXCEPT !.pc = "orphaned"]
    /\ UNCHANGED <<wvars, fa, qa, mf>>

\* the loop's asynchronous generator finalizer runs aclose() on the generator
\* left suspended at a yield: GeneratorExit is thrown there, the finally runs
IAFinalize ==
    /\ ia.pc = "orphaned"
    /\ ia' = IAFinally(ia, "close")
    /\ UNCHANGED <<wvars, fa, qa, mf>>

\* ---- ForeverAgen (utils.py:53-75) ----------------------------------------------
\* The factory is described by the items each of its streams yields and by how
\* its n-th stream ends: exhausted, with a whitelisted exception, or with another.
EndKinds == {"exhaust", "white", "other"}

\* the exception raised by the n-th stream, as a stream element
Exc(n) == [tag |-> "exc", v |-> n]

Range(f) == {f[x] : x \in DOMAIN f}

FAOff == [items |-> <<>>, ends |-> [j \in 1..MaxInvocations |-> "exhaust"],
          n |-> 0, pos |-> 0, out |-> <<>>, pc |-> "off", exc |-> 0]

\* a whitelist test that lets every exception through as an element
IsWhitelistedAlways(kind) == TRUE

\* a whitelist test that matches nothing
IsWhitelistedNever(kind) == FALSE

\* line 72: isinstance(e, exceptions)
IsWhitelisted(kind) == kind = "white"

\* line 67: the factory is invoked for a fresh stream
FAInvoke ==
    /\ fa.pc \in {"init", "restart"}
    /\ fa.n < MaxInvocations
    /\ fa' = [fa EXCEPT !.n = @ + 1, !.pos = 0, !.pc = "draining"]
    /\ UNCHANGED <<wvars, ia, qa, mf>>

\* lines 69-70: the stream yields its next item, which is yielded on
FAItem ==
    /\ fa.pc = "draining"
    /\ fa.pos < Len(fa.items)
    /\ fa' = [fa EXCEPT !.pos = @ + 1, !.out = Append(@, Item(fa.items[fa.pos + 1]))]
    /\ UNCHANGED <<wvars, ia, qa, mf>>

\* line 69 then 66: the stream is exhausted, the loop starts over
FAExhausted ==
    /\ fa.pc = "draining"
    /\ fa.pos = Len(fa.items)
    /\ fa.ends[fa.n] = "exhaust"
    /\ fa' = [fa EXCEPT !.pc = "restart"]
    /\ UNCHANGED <<wvars, ia, qa, mf>>

\* lines 71-73 then 66: a whitelisted exception is yielded, the loop starts over
FAWhitelisted ==
    /\ fa.pc = "draining"
    /\ fa.pos = Len(fa.items)
    /\ fa.ends[fa.n] # "exhaust"
    /\ IsWhitelisted(fa.ends[fa.n])
    /\ fa' = [fa EXCEPT !.out = Append(@, Exc(fa.n)), !.pc = "restart"]
    /\ UNCHANGED <<wvars, ia, qa, mf>>

\* lines 71-75: any other exception is raised again
FAReraised ==
    /\ fa.pc = "draining"
    /\ fa.pos = Len(fa.items)
    /\ fa.ends[fa.n] # "exhaust"
    /\ ~IsWhitelisted(fa.ends[fa.n])
    /\ fa' = [fa EXCEPT !.pc = "raised", !.exc = fa.n]
    /\ UNCHANGED <<wvars, ia, qa, mf>>

\* ---- QueueAgen (utils.py:78-93) -------------------------------------------------
QueueKinds == {"asyncio", "thread", "mp"}

AllKinds == QueueKinds \cup {"other"}

\* a multiprocessing queue carries the pickled object
Pickle(x) == [pickled |-> x]

Unpickle(b) == b.pickled

\* what put() stores in a queue of kind c, and what get() returns for it
Stored(c, x) == IF c = "mp" THEN Pickle(x) ELSE x

Got(c, e) == IF c = "mp" THEN Unpickle(e) ELSE e

RECURSIVE MapGot(_, _)
MapGot(c, s) == IF s = <<>> THEN <<>> ELSE <<Got(c, Head(s))>> \o MapGot(c, Tail(s))

QAOff == [c \in AllKinds |-> [q |-> <<>>, pushed |-> <<>>, hand |-> <<>>,
                              out |-> <<>>, pc |-> "off", unfinished |-> 0,
                              dones |-> 0]]

\* lines 81, 85, 89: the queue kinds the adapter accepts
Supported(c) == c \in {"asyncio", "thread", "mp"}

\* lines 84, 88: the kinds whose takes are acknowledged with task_done()
Acknowledged(c) == c \in {"asyncio", "thread"}

\* an adapter that takes an element and throws it away
YieldedNothing(c, e) == <<>>

\* lines 83, 87, 91: what one take hands to the consumer
Yielded(c, e) == <<Got(c, e)>>

\* a producer puts the next item into the queue of kind c
QAPush(c) ==
    /\ qa[c].pc # "off"
    /\ Supported(c)
    /\ Len(qa[c].pushed) < MaxItems
    /\ LET x == Len(qa[c].pushed) + 1
       IN  qa' = [qa EXCEPT ![c] = [@ EXCEPT !.q = Append(@, Stored(c, x)),
                                              !.pushed = Append(@, x),
                                              !.unfinished =
                                                  IF Acknowledged(c) THEN @ + 1 ELSE @]]
    /\ UNCHANGED <<wvars, ia, fa, mf>>

\* lines 81-93: the first pull picks the branch, or raises TypeError
QAStart(c) ==
    /\ qa[c].pc = "init"
    /\ qa' = [qa EXCEPT ![c].pc = IF Supported(c) THEN "get" ELSE "typeerror"]
    /\ UNCHANGED <<wvars, ia, fa, mf>>

\* line 83: `await inbound.get()` returns the head of the asyncio queue
QAGet(c) ==
    /\ c = "asyncio"
    /\ qa[c].pc = "get"
    /\ qa[c].q # <<>>
    /\ qa' = [qa EXCEPT ![c] = [@ EXCEPT !.q = Tail(@), !.pc = "yielded",
                                        !.out = @ \o Yielded(c, Head(qa[c].q))]]
    /\ UNCHANGED <<wvars, ia, fa, mf>>

\* lines 87, 91: the thread of asyncio.to_thread takes the head of the queue; a
\* thread cannot be cancelled, so it also does once its awaiter is gone
QAThreadTake(c) ==
    /\ c \in {"thread", "mp"}
    /\ qa[c].pc \in {"get", "closed_in_get"}
    /\ qa[c].hand = <<>>
    /\ qa[c].q # <<>>
    /\ qa' = [qa EXCEPT ![c] = [@ EXCEPT !.q = Tail(@), !.hand = <<Head(qa[c].q)>>]]
    /\ UNCHANGED <<wvars, ia, fa, mf>>

\* lines 87, 91: the thread's result reaches the generator and is yielded
QAThreadDeliver(c) ==
    /\ c \in {"thread", "mp"}
    /\ qa[c].pc = "get"
    /\ qa[c].hand # <<>>
    /\ qa' = [qa EXCEPT ![c] = [@ EXCEPT !.hand = <<>>, !.pc = "yielded",
                                        !.out = @ \o Yielded(c, qa[c].hand[1])]]
    /\ UNCHANGED <<wvars, ia, fa, mf>>

\* lines 84, 88: the consumer pulls again; the take is acknowledged where the
\* queue asks for it, and the next get starts
QAResume(c) ==
    /\ qa[c].pc = "yielded"
    /\ qa' = [qa EXCEPT ![c] = [@ EXCEPT !.pc = "get",
                 !.dones = IF Acknowledged(c) THEN @ + 1 ELSE @,
                 !.unfinished = IF Acknowledged(c) THEN @ - 1 ELSE @]]
    /\ UNCHANGED <<wvars, ia, fa, mf>>

\* the positions at which the adapted stream has ended
QAEnded == {"closed", "closed_in_get"}

\* the consumer stops iterating (the generator is closed) or is cancelled.  At
\* the yield of line 83, 87 or 91 the generator ends there, the statement after
\* the yield not being reached; inside the await of a get the asyncio get is
\* cancelled, the thread of to_thread is left running
QAStop(c) ==
    /\ qa[c].pc \in {"get", "yielded"}
    /\ qa' = [qa EXCEPT ![c].pc =
                 IF qa[c].pc = "get" /\ c \in {"thread", "mp"} /\ qa[c].hand = <<>>
                 THEN "closed_in_get" ELSE "closed"]
    /\ UNCHANGED <<wvars, ia, fa, mf>>

\* ---- MapFuture (utils.py:96-102) --------------------------------------------------
\* transform functions a caller may pass: two total ones and one that raises
Fns == {"succ", "double", "raise"}

\* the value fn returns for v, where it returns
Fn(f, v) == IF f = "succ" THEN v + 1 ELSE 2 * v

\* a finished concurrent.futures.Future
Result(v) == [state |-> "result", v |-> v]

Raised(e) == [state |-> "exception", v |-> e]

\* the error raised by fn itself, and the CancelledError of a cancelled future
FnError == Raised(0)

CancelledError == Raised(-1)

Pending == [state |-> "pending", v |-> 0]

MFOff == [fn |-> "succ", fut |-> Pending, out |-> Pending, work |-> "none",
          ahead |-> 0, applied |-> 0, waited |-> FALSE, pc |-> "off"]

\* fn(v): its value, or its error
Apply(f, v) == IF f = "raise" THEN FnError ELSE Result(Fn(f, v))

\* a task that hands the original result on without applying fn
TaskUnmapped(f, fu) ==
    IF fu.state = "result" THEN Result(fu.v)
    ELSE IF fu.state = "exception" THEN Raised(fu.v)
    ELSE CancelledError

\* line 100, `return fn(fut.result())`, for a finished fut: result() returns the
\* value or raises fut's exception, which then is the task's
Task(f, fu) ==
    IF fu.state = "result" THEN Apply(f, fu.v)
    ELSE IF fu.state = "exception" THEN Raised(fu.v)
    ELSE CancelledError

\* line 102: the task is queued on the pool, its pending future returned
MFSubmit ==
    /\ mf.pc = "init"
    /\ mf' = [mf EXCEPT !.pc = "returned", !.work = "queued"]
    /\ UNCHANGED <<wvars, ia, fa, qa>>

\* a pool thread runs a work item queued before the task
MFPoolOther ==
    /\ mf.pc # "off"
    /\ mf.ahead > 0
    /\ mf' = [mf EXCEPT !.ahead = @ - 1]
    /\ UNCHANGED <<wvars, ia, fa, qa>>

\* a pool thread takes the task: a cancelled work item is dropped, otherwise the
\* task runs up to fut.result() of line 100
MFPoolPicks ==
    /\ mf.work = "queued"
    /\ mf.ahead = 0
    /\ mf' = IF mf.out.state = "cancelled" THEN [mf EXCEPT !.work = "dropped"]
              ELSE [mf EXCEPT !.work = "blocked", !.out.state = "running",
                              !.waited = mf.fut.state = "pending"]
    /\ UNCHANGED <<wvars, ia, fa, qa>>

\* the original future finishes with a value, an error, or is cancelled
MFFutFinishes(r) ==
    /\ mf.pc # "off"
    /\ mf.fut.state = "pending"
    /\ mf' = [mf EXCEPT !.fut = r]
    /\ UNCHANGED <<wvars, ia, fa, qa>>

\* line 100: fut.result() returns or raises, the task ends and the pool sets the
\* returned future
MFTaskEnds ==
    /\ mf.work = "blocked"
    /\ mf.fut.state # "pending"
    /\ mf' = [mf EXCEPT !.out = Task(mf.fn, mf.fut), !.work = "finished",
                        !.applied = IF mf.fut.state = "result" THEN @ + 1 ELSE @]
    /\ UNCHANGED <<wvars, ia, fa, qa>>

\* the holder of the returned future cancels it before a pool thread took the task
MFCancelReturned ==
    /\ mf.pc = "returned"
    /\ mf.out.state = "pending"
    /\ mf' = [mf EXCEPT !.out.state = "cancelled"]
    /\ UNCHANGED <<wvars, ia, fa, qa>>

\* ---- the worker's specifications --------------------------------------------
Init == WInit /\ ia = IAOff /\ fa = FAOff /\ qa = QAOff /\ mf = MFOff

\* start() on a worker that has not been started before
CallStartOnce == caller.starts = 0 /\ CallStart

WorkerSteps ==
    \/ CallStartRegisterFails
    \/ CallerTimer
    \/ StartPoll
    \/ CallShutdownUnstarted
    \/ CallShutdown
    \/ ShutdownJoin
    \/ CallerYield
    \/ CallerResume
    \/ Tick
    \/ \E k \in 1..MaxStarts : HeartbeatOk(k)
    \/ \E k \in 1..MaxStarts : HeartbeatRpcFail(k)
    \/ \E k \in 1..MaxStarts : HeartbeatCancelled(k)
    \/ \E k \in 1..MaxStarts : HeartbeatTimer(k)
    \/ \E k \in 1..MaxStarts : ListenOpen(k)
    \/ \E k \in 1..MaxStarts : StreamEvent(k)
    \/ \E k \in 1..MaxStarts : StreamEof(k)
    \/ \E k \in 1..MaxStarts : StreamRpcError(k)
    \/ \E k \in 1..MaxStarts : ListenYield(k)
    \/ \E k \in 1..MaxStarts : ListenExhausted(k)
    \/ \E k \in 1..MaxStarts : ListenRpcError(k)
    \/ \E k \in 1..MaxStarts : ListenPushed(k)
    \/ \E k \in 1..MaxStarts : ListenCancelled(k)
    \/ \E x \in inflight : ThreadPut(x.k, x.msg)
    \/ \E t \in TaskIds, g \in 1..MaxCalls : GatherCallback(t, g)

\* a worker that is started once, then shut down any number of times
Next == CallStartOnce \/ WorkerSteps

Spec == Init /\ [][Next]_vars

\* a caller that may also call start() again on the same worker
\* (only the relay of an earlier start() can still be pushing once the channel is
\* closed: shutdown() cancels the relay it knows)
NextRestart ==
    \/ CallStart
    \/ WorkerSteps
    \/ \E k \in 1..MaxStarts : ListenPutError(k)

SpecRestart == Init /\ [][NextRestart]_vars

\* ---- claims about the worker lifecycle ------------------------------------
\* C1: whenever start() returns, Worker.status is HEALTHY and Worker.id is the
\* non-empty id of the Register response.
StartReturnsHealthy ==
    caller.last = "start_ok" =>
        /\ status = "HEALTHY"
        /\ id # 0
        /\ id = RegisterResponse(dispatcher.registers)

\* C2: a shutdown() issued with the heartbeat and listener tasks still running
\* returns without raising, and when it returns both tasks have ended cancelled.
ShutdownReturnsClean ==
    (caller.last \in {"shutdown_ok", "shutdown_raised"} /\ caller.pre) =>
        /\ caller.last = "shutdown_ok"
        /\ \A i \in 1..2 : /\ task[Gathered[i]].pc = "done"
                           /\ task[Gathered[i]].outcome = "cancelled"

\* a clean shutdown() has returned while a relay push was still on its thread
ShutdownWithPushInFlight ==
    caller.last = "shutdown_ok" /\ caller.pre /\ inflight # {}

\* C3: over any sequence of start() and shutdown() calls the outbound channel is
\* closed exactly once; a repeated shutdown() does not close it again.
OutboundClosedOnce == closeCalls <= 1

\* C4: the envelopes on the outbound channel are at all times a prefix of the
\* assignments the listener received, one per assignment in arrival order, the
\* relay having at most one assignment received and not yet pushed.
RelayInOrder ==
    /\ IsPrefix(MapActionOf(outbound), received)
    /\ Len(received) - Len(outbound) <= 1

\* two assignments relayed, the second after the stream was re-opened
RelayedAcrossReopen ==
    /\ Len(outbound) = 2
    /\ dispatcher.listens >= 2
    /\ MapActionOf(outbound) = received

\* C10: Worker.id is assigned once, from unset to the id of the Register
\* response, and never changes afterwards.
WorkerIdAssignedOnce == [][id # 0 => id' = id]_vars

\* C11: a start() whose Register call fails raises to its caller after that one
\* Register attempt and changes nothing of the worker; on a worker that was
\* never started status is still UNKNOWN, id unset and no task created.
RegisterFailureLeavesWorker ==
    /\ [](caller.last = "start_raised" /\ caller.starts = 0 =>
             /\ status = "UNKNOWN"
             /\ id = 0
             /\ heartbeat_task = 0
             /\ listener_task = 0
             /\ \A t \in TaskIds : task[t] = NoTask)
    /\ [][(caller'.last = "start_raised" /\ caller'.calls = caller.calls + 1) =>
             /\ caller'.pc = "run"
             /\ dispatcher'.registers = dispatcher.registers + 1
             /\ UNCHANGED <<status, id, heartbeat_task, listener_task, task,
                            ready>>]_vars

\* start() has raised on a fresh worker after its one Register attempt
StartRaisedOnFreshWorker ==
    /\ caller.last = "start_raised"
    /\ caller.calls = 1
    /\ dispatcher.registers = 1
    /\ status = "UNKNOWN"

\* C12: every failed Heartbeat call is counted in the heartbeat error count and
\* none ends the heartbeat task: a heartbeat task that has ended was cancelled.
HeartbeatFailuresNeverFatal ==
    /\ error = dispatcher.hbfailed
    /\ \A k \in 1..MaxStarts :
          task[<<"hb", k>>].pc = "done" => task[<<"hb", k>>].outcome = "cancelled"

\* C17: every transport failure of a ListenV2 stream increments the listener's
\* attempt counter by one and is followed by a new ListenV2 call, the listener
\* task going on.
ListenerFailureCounted ==
    [][dispatcher'.rpcerrors = dispatcher.rpcerrors + 1 =>
          /\ attempt' = attempt + 1
          /\ dispatcher'.listens = dispatcher.listens + 1
          /\ \A k \in 1..MaxStarts :
                task[<<"lis", k>>].pc = "read" => task'[<<"lis", k>>].pc = "read"]_vars

\* C18: a listener task that ended cancelled has cancelled the ListenV2 stream
\* it had open, wherever the cancellation landed.
ListenerCancelClosesStream ==
    \A k \in 1..MaxStarts :
        (task[<<"lis", k>>].pc = "done" /\ task[<<"lis", k>>].outcome = "cancelled")
            => resp[k] # "open"

\* C19: the first-heartbeat timestamp is recorded and HEALTHY marked only by a
\* round whose Heartbeat call succeeded, a failed call recording nothing, so
\* start() has not returned before the dispatcher answered a heartbeat.
FirstHeartbeatWasAnswered ==
    /\ (\/ StartBarrier(last_heartbeat)
        \/ hb_status = "HEALTHY"
        \/ caller.last = "start_ok") => dispatcher.heartbeatAt > 0
    /\ StartBarrier(last_heartbeat) => last_heartbeat <= dispatcher.heartbeatAt
    /\ dispatcher.heartbeatAt = 0 => last_heartbeat < 0

\* the first Heartbeat call failed: nothing is recorded and start() is polling
StartPollsAfterFailedHeartbeat ==
    /\ dispatcher.hbfailed = 1
    /\ dispatcher.heartbeatAt = 0
    /\ last_heartbeat < 0
    /\ caller.pc = "poll"

\* C20: in a round after the first, missed is incremented exactly when the gap
\* between this round's timestamp and the timestamp of the preceding round
\* exceeds the heartbeat interval; rounds one interval apart never increase it.
MissedCountsGapToPrecedingRound ==
    [][(dispatcher.heartbeatAt > 0 /\ dispatcher'.heartbeatAt # dispatcher.heartbeatAt) =>
          missed' = IF dispatcher'.heartbeatAt - dispatcher.heartbeatAt > HeartbeatInterval
                    THEN missed + 1 ELSE missed]_vars


\* C22: once shutdown() has closed the outbound channel nothing is put on it: no
\* put handed to a thread earlier runs against, or lands on, the closed channel.
NoPutAfterClose ==
    [][outbound_closed => (outbound' = outbound /\ inflight \subseteq inflight')]_vars

\* C23: after a successful Register start() returns whatever the outcome of the
\* Heartbeat calls: it is never left polling for a first heartbeat that the
\* heartbeat task, having ended, can no longer record.
StartNeverWaitsOnDeadHeartbeat ==
    ~(/\ caller.pc = "poll"
      /\ ~StartBarrier(last_heartbeat)
      /\ task[<<"hb", heartbeat_task>>].pc = "done")

\* ---- the combinators' specifications --------------------------------------
\* InterruptableAgen over every source of at most MaxSrcLen items, the source
\* ending or raising; the tasks and the consumer are scheduled fairly
InitInterruptable ==
    /\ WInit /\ fa = FAOff /\ qa = QAOff /\ mf = MFOff
    /\ \E src \in SeqsUpTo(1..MaxValue, MaxSrcLen), e \in {"end", "raise"} :
          ia = [IAOff EXCEPT !.srcAll = src, !.src = src, !.srcEnd = e, !.pc = "init"]

NextInterruptable ==
    \/ IAStart
    \/ IAProduce
    \/ IAProducerEnds
    \/ IASourceRaises
    \/ IAGetItem
    \/ IATimeout
    \/ IAResumeAfterItem
    \/ IAResumeAfterInterrupt
    \/ IAInterrupt
    \/ IAProducerCancelled
    \/ IAJoined
    \/ IACancelConsumer
    \/ IAFinalize

SpecInterruptable ==
    /\ InitInterruptable
    /\ [][NextInterruptable]_vars
    /\ WF_vars(IAStart)
    /\ WF_vars(IAProduce)
    /\ WF_vars(IAProducerEnds)
    /\ WF_vars(IAGetItem)
    /\ WF_vars(IAResumeAfterItem)
    /\ WF_vars(IAResumeAfterInterrupt)
    /\ WF_vars(IAProducerCancelled)
    /\ WF_vars(IAJoined)

\* ForeverAgen over every factory of the bounded family
InitForever ==
    /\ WInit /\ ia = IAOff /\ qa = QAOff /\ mf = MFOff
    /\ \E items \in SeqsUpTo(1..MaxValue, MaxSrcLen),
          ends \in [1..MaxInvocations -> EndKinds] :
          fa = [FAOff EXCEPT !.items = items, !.ends = ends, !.pc = "init"]

NextForever ==
    \/ FAInvoke
    \/ FAItem
    \/ FAExhausted
    \/ FAWhitelisted
    \/ FAReraised

SpecForever == InitForever /\ [][NextForever]_vars

\* QueueAgen on one queue of every kind, with producers pushing while it drains
InitQueue ==
    /\ WInit /\ ia = IAOff /\ fa = FAOff /\ mf = MFOff
    /\ qa = [c \in AllKinds |-> [QAOff[c] EXCEPT !.pc = "init"]]

NextQueue ==
    \/ \E c \in AllKinds : QAPush(c)
    \/ \E c \in AllKinds : QAStart(c)
    \/ \E c \in AllKinds : QAGet(c)
    \/ \E c \in AllKinds : QAThreadTake(c)
    \/ \E c \in AllKinds : QAThreadDeliver(c)
    \/ \E c \in AllKinds : QAResume(c)
    \/ \E c \in AllKinds : QAStop(c)

SpecQueue == InitQueue /\ [][NextQueue]_vars


\* MapFuture for every transform of Fns, on a pool with up to MaxBacklog work
\* items ahead, the original future pending or already finished at the call
MFOutcomes ==
    {Result(v) : v \in 1..MaxValue} \cup {Raised(e) : e \in 1..MaxValue}
        \cup {[state |-> "cancelled", v |-> 0]}

InitMapFuture ==
    /\ WInit /\ ia = IAOff /\ fa = FAOff /\ qa = QAOff
    /\ \E f \in Fns, n \in 0..MaxBacklog, fu \in MFOutcomes \cup {Pending} :
          mf = [MFOff EXCEPT !.fn = f, !.ahead = n, !.fut = fu, !.pc = "init"]

NextMapFuture ==
    \/ MFSubmit
    \/ MFPoolOther
    \/ MFPoolPicks
    \/ \E r \in MFOutcomes : MFFutFinishes(r)
    \/ MFTaskEnds
    \/ MFCancelReturned

SpecMapFuture == InitMapFuture /\ [][NextMapFuture]_vars


\* ---- claims about the combinators -------------------------------------------
\* C5: the output of InterruptableAgen is a prefix of the source in source
\* order, optionally followed by exactly one interrupt value, after which
\* nothing is yielded.
IAOutputShape ==
    /\ \E n \in 0..Len(ia.out) :
          /\ n <= Len(ia.srcAll)
          /\ \A i \in 1..n : ia.out[i] = Item(ia.srcAll[i])
          /\ \/ Len(ia.out) = n
             \/ Len(ia.out) = n + 1 /\ ia.out[n + 1].tag = "int"
    /\ (ia.out # <<>> /\ ia.out[Len(ia.out)].tag = "int") =>
          ia.pc \in {"yielded_int", "orphaned", "joining"} \cup IAFinished

\* an interrupt cut the stream short: a source item, then the interrupt value,
\* then the end, with a second interrupt value and source items left over
IAInterruptedMidSource ==
    /\ ia.pc \in {"ended", "raised"}
    /\ Len(ia.out) = 2
    /\ ia.out[1].tag = "item"
    /\ ia.out[2].tag = "int"
    /\ ia.interrupt # <<>>
    /\ Len(ia.srcAll) = 2

\* C6: when nothing is ever put on the interrupt queue, the source is finite and
\* the consumer keeps pulling, InterruptableAgen eventually ends normally having
\* yielded exactly the source items in order, and never yields anything but
\* source items.
IATerminatesWithoutInterrupt ==
    ([](ia.ints = 0 /\ ~ia.consumerCancelled) /\ ia.srcEnd = "end") =>
        /\ <>[](ia.pc = "ended" /\ ia.out = [i \in 1..Len(ia.srcAll) |-> Item(ia.srcAll[i])])
        /\ [](\A i \in 1..Len(ia.out) : ia.out[i].tag = "item")

\* a two-item source drained to its end with timeouts on the way and no interrupt
IAEndedAfterTimeouts ==
    /\ ia.pc = "ended"
    /\ ia.ints = 0
    /\ ia.timedOut
    /\ Len(ia.out) = 2

\* the factory whose every stream yields a, b and raises a whitelisted exception
ABWhite == fa.items = <<1, 2>> /\ \A j \in 1..MaxInvocations : fa.ends[j] = "white"

\* the i-th element of a, b, exception 1, a, b, exception 2, ...
ABPattern(i) == IF i % 3 = 0 THEN Exc(i \div 3) ELSE Item(i % 3)

\* C7: for that factory ForeverAgen produces a, b, exception 1, a, b,
\* exception 2, ...: each exception once, as an element, the factory invoked
\* again after each, and the derived stream never ends.
FARestartsForever ==
    ABWhite =>
        /\ \A i \in 1..Len(fa.out) : fa.out[i] = ABPattern(i)
        /\ fa.pc \in {"init", "draining", "restart"}
        /\ fa.pc = "draining" => Len(fa.out) = 3 * (fa.n - 1) + fa.pos
        /\ fa.pc = "restart" => Len(fa.out) = 3 * fa.n

\* the third stream of that factory is being drained after a, b, e1, a, b, e2
FAThirdRound ==
    ABWhite /\ fa.n = 3 /\ fa.pc = "draining" /\ Len(fa.out) = 6

\* C8: an exception that is not whitelisted is raised to the consumer, is not
\* yielded as an element, the factory is not invoked again, and the derived
\* stream is finished.
FAReraises ==
    /\ \A j \in 1..fa.n :
          fa.ends[j] = "other" => (j = fa.n /\ Exc(j) \notin Range(fa.out))
    /\ fa.pc = "raised" => (fa.n >= 1 /\ fa.ends[fa.n] = "other" /\ fa.exc = fa.n)
    /\ (fa.n >= 1 /\ fa.ends[fa.n] = "other" /\ fa.pc # "draining") => fa.pc = "raised"

\* the second stream raised a non-whitelisted exception after a restart
FARaisedAfterRestart ==
    fa.pc = "raised" /\ fa.n >= 2 /\ Len(fa.out) >= 3

\* C9: for each of the three queue kinds, what QueueAgen has yielded, followed
\* by what is still in the queue, is what was pushed, in push order: nothing is
\* lost, duplicated or reordered, and the adapter accepts the queue.
QADrainsInOrder ==
    \A c \in QueueKinds :
        /\ qa[c].pc # "typeerror"
        /\ qa[c].out \o MapGot(c, qa[c].hand) \o MapGot(c, qa[c].q) = qa[c].pushed

\* all three queues drained of the two items pushed into each
QAAllDrained ==
    \A c \in QueueKinds : Len(qa[c].out) = 2 /\ qa[c].out = qa[c].pushed

\* C13: the future MapFuture returns resolves to fn(v) when the original future
\* resolved to v, fails with the original's failure, fn not applied, when the
\* original failed, and is never resolved while the original is pending.
MapFutureResolves ==
    /\ mf.out.state = "result" =>
          /\ mf.fut.state = "result"
          /\ mf.out.v = Fn(mf.fn, mf.fut.v)
          /\ mf.applied = 1
    /\ (mf.work = "finished" /\ mf.fut.state = "result" /\ mf.fn # "raise") =>
          mf.out.state = "result"
    /\ (mf.work = "finished" /\ mf.fut.state = "exception") =>
          /\ mf.out = Raised(mf.fut.v)
          /\ mf.applied = 0
    /\ mf.fut.state = "pending" => mf.out.state \in {"pending", "running", "cancelled"}

\* the task waited on its pool thread for the original future, which then
\* resolved to 2, and the returned future holds double(2)
MapFutureDoubled ==
    /\ mf.fn = "double"
    /\ mf.waited
    /\ mf.out = Result(4)
    /\ mf.fut = Result(2)

\* C14: every loop iteration of InterruptableAgen yields at most one item, and
\* the interrupt queue is inspected only in an iteration whose wait timed out.
IAOneYieldPerIteration ==
    /\ ia.iterOut <= 1
    /\ ia.iterInspected => ia.iterTimedOut

\* C15: once the interrupt value has been yielded and the consumer pulls again,
\* the derived stream ends as a normal end of iteration, no error raised, also
\* when the source (which has not failed) has items left or is still waiting.
IAInterruptEndsNormally ==
    (/\ ia.out # <<>>
     /\ ia.out[Len(ia.out)].tag = "int"
     /\ ~ia.consumerCancelled
     /\ ia.prod # "failed"
     /\ ia.pc \in IAFinished) => (ia.pc = "ended" /\ ia.exc = "none")

\* C16: whenever InterruptableAgen has finished, by exhaustion, interruption,
\* cancellation of its consumer or finalization, its producer task has finished.
IAProducerNotLeaked ==
    ia.pc \in IAFinished =>
        /\ ia.prod \in {"none", "done", "failed", "cancelled"}
        /\ ia.prod = "none" => ia.out = <<>>

\* the consumer was cancelled inside the wait while the source still had an item
\* to give: the generator ended only after its producer had been cancelled
IACancelledWithSourcePending ==
    /\ ia.pc = "cancelled"
    /\ ia.consumerCancelled
    /\ ia.prod = "cancelled"
    /\ ia.src # <<>>

\* C21: when the adapted stream has ended, the asyncio and thread-blocking
\* kinds have called task_done once per item taken from the queue, the last item
\* handed to the consumer included; the cross-process kind never calls it.
QATakesAcknowledged ==
    \A c \in QueueKinds :
        /\ qa[c].pc \in QAEnded =>
              qa[c].dones = IF Acknowledged(c)
                            THEN Len(qa[c].out) + Len(qa[c].hand) ELSE 0
        /\ ~Acknowledged(c) => qa[c].dones = 0

====
